---- MODULE Spec2Model ----
(***************************************************************************)
(* Subscription and digest-delivery pipeline of Equora.AI.                 *)
(*                                                                         *)
(* The model follows the newsletter controller (exports.subscribe,         *)
(* exports.unsubscribe, exports.getSubscribers) and the newsletter service *)
(* (loadSubscribers, saveSubscribers, subscribeNewsletter,                 *)
(* unsubscribeNewsletter, getNewsletterSubscribers, sendWelcomeEmail).     *)
(*                                                                         *)
(* Every HTTP request is served by an async handler.  A handler runs       *)
(* without interruption between two awaits, so each action below is one    *)
(* such stretch of code: it ends where the code awaits the file system or  *)
(* the mail transport.  Handlers of different requests interleave at those *)
(* points only.                                                            *)
(*                                                                         *)
(* Strings that the code inspects character by character (the email, which *)
(* the controller matches against a regular expression) are sequences of   *)
(* one-character strings.  An optional JSON property is a sequence of      *)
(* length 0 (absent, undefined) or 1 (present).                            *)
(***************************************************************************)
EXTENDS Integers, Sequences, FiniteSets, TLC

\* ------------------------------------------------------------------ bounds

\* Number of request handlers that can be in flight at the same time.
NumProcs == 2
\* Largest reading of the millisecond clock.
MaxClock == 1
\* Number of HTTP requests accepted over one behaviour.
MaxReqs == 3
\* Number of invocations of sendNewsletter over one behaviour.
MaxBatches == 1
\* Number of subscribe requests accepted while the sends are followed.
MaxWelcomes == 1
\* Number of runs of the send script over one behaviour.
MaxScripts == 1
\* Number of requests accepted beside a run of sendNewsletter.
MaxMixReqs == 2

Procs == 1..NumProcs
\* The one handler used when requests are served strictly one after another.
SeqProcs == {1}

\* ------------------------------------------------------------ input values

Absent == <<>>
Some(x) == <<x>>

EmailA == <<"a", "@", "b", ".", "c">>
EmailB == <<"b", "@", "b", ".", "c">>
EmailTestRecipient == <<"t", "@", "t", ".", "t">>

\* Addresses that a client can post and that are not of the form x@y.z.
BadEmpty == <<>>
BadNoAt == <<"a", "b", ".", "c">>
BadNoDot == <<"a", "@", "b">>
BadSpace == <<"a", " ", "@", "b", ".", "c">>
Unknown == <<"n", "@", "x", ".", "c">>

GoodEmails == {EmailA, EmailB}
BadEmails == {BadEmpty, BadNoDot, BadSpace}

\* The preference part of a subscribe body: everything given, or nothing given.
PrefsFull == [name |-> Some("n1"), topics |-> Some(<<"t1">>),
              sources |-> Some(<<"s1">>), frequency |-> Some("daily")]
PrefsNone == [name |-> Absent, topics |-> Absent,
              sources |-> Absent, frequency |-> Absent]

Body(e, f) ==
    [email |-> e, name |-> f.name, topics |-> f.topics,
     sources |-> f.sources, frequency |-> f.frequency]

\* Bodies posted to /subscribe: a well-formed address with either set of
\* preferences, or no address or a malformed one.
SubscribeBodies ==
    { Body(Some(x), f) : x \in GoodEmails, f \in {PrefsFull, PrefsNone} }
    \cup { Body(e, PrefsFull) : e \in {Absent} \cup {Some(x) : x \in BadEmails} }

\* Bodies posted to /unsubscribe.
UnsubscribeBodies ==
    { [email |-> e] : e \in {Absent, Some(Unknown), Some(BadNoAt)}
                             \cup {Some(x) : x \in GoodEmails} }

\* ------------------------------------------------------------------- state

VARIABLES
    file,           \* content of newsletter-subscribers.json: the array of records
    now,            \* reading of the millisecond clock (Date)
    call,           \* call[p]: the frame of handler p (position and locals)
    sent,           \* transporter.sendMail calls initiated so far, in order
    nreq,           \* requests accepted so far
    answer,         \* the latest HTTP answer, with the request it answers
    lastCall,       \* the latest subscribe/unsubscribe that returned after a write
    prevCall,       \* the one before it
    testMode,       \* process.env.EMAIL_TEST_MODE === 'true'
    testRecipient,  \* process.env.EMAIL_TEST_RECIPIENT, when set
    race,           \* race[i]: promise, timer and transport of the send sent[i]
    batch,          \* the frame of sendNewsletter (position and locals)
    nbatch,         \* invocations of sendNewsletter so far
    script,         \* the frame of sendNewsletter in the send script
    nscript         \* runs of the send script so far

vars == <<file, now, call, sent, nreq, answer, lastCall, prevCall, testMode,
          testRecipient, race, batch, nbatch, script, nscript>>

\* ------------------------------------------------- controller: validation

\* `!email`: the property is missing (undefined) or the empty string.
Falsy(opt) == opt = Absent \/ opt[1] = <<>>

\* `x || d` for a property that is either missing or a truthy value.
OrElse(opt, d) == IF opt = Absent THEN d ELSE opt[1]

\* A character that [^\s@] accepts.
NotSpaceNorAt(c) == c \notin {" ", "@"}

\* Mutant of emailRegexTest: /^[^\s@]+@[^\s@]+$/, the dot is not asked for.
emailRegexNoDot(email) ==
    \E i \in 1..Len(email) :
        /\ email[i] = "@"
        /\ 1 < i
        /\ i < Len(email)
        /\ \A k \in (1..Len(email)) \ {i} : NotSpaceNorAt(email[k])

\* /^[^\s@]+@[^\s@]+\.[^\s@]+$/.test(email): email is A@B.C where A, B and C
\* are non-empty and hold neither white space nor "@" (B and C may hold dots).
emailRegexTest(email) ==
    \E i \in 1..Len(email), j \in 1..Len(email) :
        /\ email[i] = "@"
        /\ email[j] = "."
        /\ 1 < i
        /\ i + 1 < j
        /\ j < Len(email)
        /\ \A k \in (1..Len(email)) \ {i} : NotSpaceNorAt(email[k])

\* The arguments exports.subscribe hands to subscribeNewsletter.
subscribeArgs(body) ==
    [email |-> body.email[1],
     name |-> body.name,
     topics |-> OrElse(body.topics, <<>>),
     sources |-> OrElse(body.sources, <<>>),
     frequency |-> OrElse(body.frequency, "weekly")]

\* ------------------------------------------------------- service: the store

\* loadSubscribers: the parsed file, or [] when the file is missing or cannot
\* be read or parsed (the catch swallows every error).
loadSubscribers(readOk) == IF readOk THEN file ELSE <<>>

\* Mutant of saveSubscribers: the records of the file that the array lacks
\* are kept behind it.
saveMerged(subscribers) ==
    subscribers \o
    SelectSeq(file, LAMBDA sub :
        \A i \in 1..Len(subscribers) : subscribers[i].email # sub.email)

\* saveSubscribers: what the file holds once writeFile has written
\* JSON.stringify(subscribers), the whole array in place of the old content.
saveSubscribers(subscribers) == subscribers

\* Mutant of findIndex: the lookup never finds the email.
findIndexNever(subscribers, email) == -1

\* Array.prototype.findIndex(sub => sub.email === email): 0-based, -1 if none.
findIndex(subscribers, email) ==
    IF \E i \in 1..Len(subscribers) : subscribers[i].email = email
    THEN (CHOOSE i \in 1..Len(subscribers) :
             /\ subscribers[i].email = email
             /\ \A k \in 1..(i - 1) : subscribers[k].email # email) - 1
    ELSE -1

\* `sub_${Date.now()}`
subscriberId(ms) == <<"sub_", ms>>

\* Mutant of updateSubscription: the topics of the request are not stored.
updateKeepsTopics(existing, args, timestamp) ==
    [existing EXCEPT !.name = args.name,
                     !.sources = args.sources,
                     !.frequency = args.frequency,
                     !.updatedAt = timestamp]

\* Mutant of updateSubscription: an update makes the record active again.
updateReactivates(existing, args, timestamp) ==
    [existing EXCEPT !.name = args.name,
                     !.topics = args.topics,
                     !.sources = args.sources,
                     !.frequency = args.frequency,
                     !.isActive = TRUE,
                     !.updatedAt = timestamp]

\* The update branch of subscribeNewsletter: spread of the existing record,
\* then name, topics, sources, frequency and updatedAt overwritten.
updateSubscription(existing, args, timestamp) ==
    [existing EXCEPT !.name = args.name,
                     !.topics = args.topics,
                     !.sources = args.sources,
                     !.frequency = args.frequency,
                     !.updatedAt = timestamp]

\* The create branch of subscribeNewsletter.
createSubscription(args, timestamp, ms) ==
    [id |-> subscriberId(ms),
     email |-> args.email,
     name |-> args.name,
     topics |-> args.topics,
     sources |-> args.sources,
     frequency |-> args.frequency,
     isActive |-> TRUE,
     createdAt |-> timestamp,
     updatedAt |-> timestamp]

\* Mutant of markInactive: the record is stamped as if newly created.
markInactiveRestamped(sub, timestamp) ==
    [sub EXCEPT !.isActive = FALSE, !.createdAt = timestamp,
                !.updatedAt = timestamp]

\* The two assignments of unsubscribeNewsletter on the record it found.
markInactive(sub, timestamp) ==
    [sub EXCEPT !.isActive = FALSE, !.updatedAt = timestamp]

\* Mutant of unsubscribeResult: success is reported whatever the lookup gave.
unsubscribeResultAlways(index) ==
    [success |-> TRUE, message |-> "Successfully unsubscribed"]

\* What unsubscribeNewsletter returns when findIndex gave `index`.
unsubscribeResult(index) ==
    IF index = -1
    THEN [success |-> FALSE, message |-> "Email not found in subscribers list"]
    ELSE [success |-> TRUE, message |-> "Successfully unsubscribed"]

\* Mutant of getNewsletterSubscribers: the filter is not applied.
getAllSubscribers(subscribers, activeOnly) == subscribers

\* getNewsletterSubscribers applied to a loaded array.
getNewsletterSubscribers(subscribers, activeOnly) ==
    IF activeOnly
    THEN SelectSeq(subscribers, LAMBDA sub : sub.isActive # FALSE)
    ELSE subscribers

\* Mutant of afterWelcome: a rejected welcome send is thrown on.
afterWelcomeRethrow(outcome) ==
    IF outcome \in {"error", "timeout"} THEN "throw" ELSE "return"

\* What subscribeNewsletter does once sendWelcomeEmail has settled with
\* `outcome`: a rejection is caught and logged, and the function goes on to
\* `return subscription`.
afterWelcome(outcome) == "return"

\* Mutant of afterSave: a new subscriber is welcomed whether or not the
\* save succeeded.
afterSaveWelcomeAnyway(writeOk, existingIndex) ==
    IF existingIndex < 0 THEN "welcome"
    ELSE IF writeOk THEN "return" ELSE "throw"

\* What subscribeNewsletter does once `await saveSubscribers(...)` has
\* settled: a rejection leaves the try block for the catch, which throws
\* it on; after a save, a new subscriber (existingIndex < 0) is welcomed,
\* an updated one is returned.
afterSave(writeOk, existingIndex) ==
    IF ~writeOk THEN "throw"
    ELSE IF existingIndex < 0 THEN "welcome" ELSE "return"

\* ------------------------------------------------------------------ frames

\* A handler that serves no request.  The locals of a handler are gone once
\* it has answered, so a handler that has answered is idle again.
IdleFrame ==
    [pc |-> "idle", op |-> "none", body |-> <<>>, args |-> <<>>,
     subscribers |-> <<>>, index |-> -1, found |-> <<>>, timestamp |-> 0,
     subscription |-> <<>>, touched |-> {}, welcome |-> "none"]

NoAnswer ==
    [op |-> "none", body |-> <<>>, status |-> 0, text |-> "",
     data |-> <<>>, index |-> -1, touched |-> {}, welcome |-> "none"]
NoCall ==
    [op |-> "none", email |-> <<>>, args |-> <<>>, index |-> -1, at |-> 0,
     old |-> <<>>, rec |-> <<>>]

\* Handler p, whose frame is f, answers: res.status(status).json(...).
\* The answer keeps, of the frame, the request and what the call did:
\* index is what findIndex gave, touched holds "load", "save", "send" for a
\* read of the file, a write of it and a sendMail initiated, welcome is how
\* the welcome step ended.
Reply(p, f, status, text, data) ==
    /\ call' = [call EXCEPT ![p] = IdleFrame]
    /\ answer' = [op |-> f.op, body |-> f.body, status |-> status,
                  text |-> text, data |-> data, index |-> f.index,
                  touched |-> f.touched, welcome |-> f.welcome]

\* The subscribe or unsubscribe of frame f returns after it wrote the file;
\* old is the record it found in the collection it loaded, if any, and rec
\* is the record it wrote.
Returned(f, rec) ==
    /\ lastCall' = [op |-> f.op, email |-> f.args.email, args |-> f.args,
                    index |-> f.index, at |-> f.timestamp, old |-> f.found,
                    rec |-> rec]
    /\ prevCall' = lastCall

Free(p) == call[p].pc = "idle"

\* The caller of sendNewsletter, where a handler of a request would stand:
\* the daily task of the server.
Batch == 0
\* The send script, a process of its own that calls sendNewsletter.
Script == -1

\* Mutant of NewRace: no timer is set beside the sendMail call.
NewRaceNoTimer(by) ==
    [by |-> by, promise |-> "pending", timer |-> "cleared",
     transport |-> "flying"]

\* The promise of one send with its 30 s timer and its sendMail call, as
\* they are when `new Promise(...)` returns: the promise pending, the timer
\* armed, the transport at work.  by is who awaits the promise.
NewRace(by) ==
    [by |-> by, promise |-> "pending", timer |-> "armed",
     transport |-> "flying"]

\* sendNewsletter not running.
IdleBatch ==
    [pc |-> "idle", specificEmail |-> <<>>, loaded |-> <<>>,
     subscribers |-> <<>>, k |-> 0, base |-> 0, outcomes |-> <<>>,
     delays |-> {}, result |-> <<>>, mode |-> FALSE, recipient |-> <<>>,
     unsubscribed |-> {}, thrown |-> FALSE]

Init ==
    /\ file = <<>>
    /\ now = 0
    /\ call = [p \in Procs |-> IdleFrame]
    /\ sent = <<>>
    /\ nreq = 0
    /\ answer = NoAnswer
    /\ lastCall = NoCall
    /\ prevCall = NoCall
    /\ testMode \in BOOLEAN
    /\ testRecipient \in {Absent, Some(EmailTestRecipient)}
    /\ race = <<>>
    /\ batch = IdleBatch
    /\ nbatch = 0
    /\ script = IdleBatch
    /\ nscript = 0

\* ------------------------------------------------- POST /subscribe handler

\* exports.subscribe up to its await: a missing or malformed email is
\* answered with 400 at once; otherwise subscribeNewsletter is entered and
\* awaits loadSubscribers.
SubscribeReq(p, body) ==
    /\ Free(p)
    /\ nreq < MaxReqs
    /\ nreq' = nreq + 1
    /\ LET f == [IdleFrame EXCEPT !.op = "subscribe", !.body = body] IN
       IF Falsy(body.email)
       THEN Reply(p, f, 400, "Email is required", <<>>)
       ELSE IF ~emailRegexTest(body.email[1])
       THEN Reply(p, f, 400, "Invalid email format", <<>>)
       ELSE /\ call' = [call EXCEPT ![p] =
                  [f EXCEPT !.pc = "sub_load", !.args = subscribeArgs(body)]]
            /\ answer' = answer
    /\ UNCHANGED <<file, now, sent, lastCall, prevCall, testMode, testRecipient>>
    /\ UNCHANGED <<race, batch, nbatch, script, nscript>>

\* subscribeNewsletter from the resolution of loadSubscribers to the await of
\* saveSubscribers: look the email up, read the clock, update the record
\* found or append a new one.  The create branch reads the clock a second
\* time (Date.now() for the id), and the clock may have advanced by then.
SubLoad(p, readOk) ==
    /\ call[p].pc = "sub_load"
    /\ LET f == call[p]
           subscribers == loadSubscribers(readOk)
           existingIndex == findIndex(subscribers, f.args.email)
           timestamp == now
       IN IF existingIndex >= 0
          THEN LET subscription ==
                      updateSubscription(subscribers[existingIndex + 1],
                                         f.args, timestamp)
               IN /\ call' = [call EXCEPT ![p] =
                        [f EXCEPT !.pc = "sub_save",
                                  !.index = existingIndex,
                                  !.found =
                                      Some(subscribers[existingIndex + 1]),
                                  !.timestamp = timestamp,
                                  !.subscription = Some(subscription),
                                  !.subscribers =
                                      [subscribers EXCEPT
                                          ![existingIndex + 1] = subscription],
                                  !.touched = @ \cup {"load"}]]
                  /\ now' = now
          ELSE \E ms \in {now, now + 1} :
                  /\ ms <= MaxClock
                  /\ LET subscription ==
                            createSubscription(f.args, timestamp, ms)
                     IN call' = [call EXCEPT ![p] =
                           [f EXCEPT !.pc = "sub_save",
                                     !.index = existingIndex,
                                     !.timestamp = timestamp,
                                     !.subscription = Some(subscription),
                                     !.subscribers =
                                         Append(subscribers, subscription),
                                     !.touched = @ \cup {"load"}]]
                  /\ now' = ms
    /\ UNCHANGED <<file, sent, nreq, answer, lastCall, prevCall, testMode,
                   testRecipient, race, batch, nbatch, script,
                   nscript>>

\* The answer of exports.subscribe once the welcome step of
\* subscribeNewsletter has ended with `outcome`.
AfterWelcome(p, f, outcome) ==
    LET g == [f EXCEPT !.welcome = outcome] IN
    IF afterWelcome(outcome) = "return"
    THEN /\ Reply(p, g, 200, "Successfully subscribed to newsletter",
                  g.subscription)
         /\ Returned(g, g.subscription)
    ELSE /\ Reply(p, g, 500, "Failed to subscribe to newsletter", <<>>)
         /\ UNCHANGED <<lastCall, prevCall>>

\* sendWelcomeEmail up to transporter.sendMail, entered by the handler whose
\* frame is f.  In test mode without a test recipient it returns true
\* without sending; when the transporter cannot be created its catch returns
\* false; otherwise one sendMail is initiated, to the test recipient in test
\* mode and to the subscriber otherwise, and the handler awaits the promise.
sendWelcomeEmail(p, f, created) ==
    LET subscriber == f.subscription[1].email IN
    IF testMode /\ testRecipient = Absent
    THEN /\ AfterWelcome(p, f, "skipped")
         /\ sent' = sent
         /\ race' = race
    ELSE IF ~created
    THEN /\ AfterWelcome(p, f, "no_transporter")
         /\ sent' = sent
         /\ race' = race
    ELSE /\ sent' = Append(sent,
               [kind |-> "welcome",
                to |-> IF testMode THEN testRecipient[1] ELSE subscriber,
                for |-> subscriber])
         /\ race' = Append(race, NewRace(p))
         /\ call' = [call EXCEPT ![p] =
               [f EXCEPT !.pc = "welcome_wait", !.touched = @ \cup {"send"}]]
         /\ UNCHANGED <<answer, lastCall, prevCall>>

\* saveSubscribers settles, and subscribeNewsletter runs on to its next
\* await.  Written: an update returns the subscription (200), a new
\* subscription enters sendWelcomeEmail.  Not written: writeFile rejects,
\* subscribeNewsletter rethrows and the controller answers 500.
SubSave(p, writeOk, created) ==
    /\ call[p].pc = "sub_save"
    /\ LET f == call[p]
           g == IF writeOk THEN [f EXCEPT !.touched = @ \cup {"save"}] ELSE f
           then == afterSave(writeOk, f.index)
       IN /\ file' = IF writeOk THEN saveSubscribers(f.subscribers) ELSE file
          /\ CASE then = "welcome" -> sendWelcomeEmail(p, g, created)
               [] then = "return" ->
                      /\ Reply(p, g, 200,
                               "Successfully subscribed to newsletter",
                               f.subscription)
                      /\ Returned(g, f.subscription)
                      /\ UNCHANGED <<sent, race>>
               [] OTHER ->
                      /\ Reply(p, g, 500, "Failed to subscribe to newsletter",
                               <<>>)
                      /\ UNCHANGED <<sent, race, lastCall, prevCall>>
    /\ UNCHANGED <<now, nreq, testMode, testRecipient, batch, nbatch, script,
                   nscript>>

\* The promise of sendWelcomeEmail settles: sendMail called back without
\* error ("sent"), with an error ("error"), or the 30 s timer fired first
\* ("timeout").
WelcomeSettle(p, outcome) ==
    /\ call[p].pc = "welcome_wait"
    /\ AfterWelcome(p, call[p], outcome)
    /\ UNCHANGED <<file, now, sent, nreq, testMode, testRecipient>>
    /\ UNCHANGED <<race, batch, nbatch, script, nscript>>

\* ----------------------------------------------- POST /unsubscribe handler

\* exports.unsubscribe up to its await.
UnsubscribeReq(p, body) ==
    /\ Free(p)
    /\ nreq < MaxReqs
    /\ nreq' = nreq + 1
    /\ LET f == [IdleFrame EXCEPT !.op = "unsubscribe", !.body = body] IN
       IF Falsy(body.email)
       THEN Reply(p, f, 400, "Email is required", <<>>)
       ELSE /\ call' = [call EXCEPT ![p] =
                  [f EXCEPT !.pc = "unsub_load",
                            !.args = [email |-> body.email[1]]]]
            /\ answer' = answer
    /\ UNCHANGED <<file, now, sent, lastCall, prevCall, testMode, testRecipient>>
    /\ UNCHANGED <<race, batch, nbatch, script, nscript>>

\* unsubscribeNewsletter from the resolution of loadSubscribers: no record
\* with the email, return the not-found result, which the controller wraps
\* in its 200 answer; otherwise mark the record and await saveSubscribers.
UnsubLoad(p, readOk) ==
    /\ call[p].pc = "unsub_load"
    /\ LET f == call[p]
           subscribers == loadSubscribers(readOk)
           index == findIndex(subscribers, f.args.email)
           g == [f EXCEPT !.index = index, !.timestamp = now,
                          !.touched = @ \cup {"load"}]
       IN IF index = -1
          THEN Reply(p, g, 200, "Successfully unsubscribed from newsletter",
                     Some(unsubscribeResult(index)))
          ELSE /\ call' = [call EXCEPT ![p] =
                     [g EXCEPT !.pc = "unsub_save",
                               !.found = Some(subscribers[index + 1]),
                               !.subscribers =
                                   [subscribers EXCEPT ![index + 1] =
                                       markInactive(subscribers[index + 1],
                                                    g.timestamp)]]]
               /\ answer' = answer
    /\ UNCHANGED <<file, now, sent, nreq, lastCall, prevCall, testMode,
                   testRecipient, race, batch, nbatch, script,
                   nscript>>

\* saveSubscribers settles in unsubscribeNewsletter: written, the success
\* result is returned; not written, the rejection reaches the controller's
\* catch, which answers 500.
UnsubSave(p, writeOk) ==
    /\ call[p].pc = "unsub_save"
    /\ LET f == call[p] IN
       IF writeOk
       THEN /\ file' = saveSubscribers(f.subscribers)
            /\ Reply(p, [f EXCEPT !.touched = @ \cup {"save"}], 200,
                     "Successfully unsubscribed from newsletter",
                     Some(unsubscribeResult(f.index)))
            /\ Returned(f, Some(f.subscribers[f.index + 1]))
       ELSE /\ Reply(p, f, 500, "Failed to unsubscribe from newsletter", <<>>)
            /\ UNCHANGED <<file, lastCall, prevCall>>
    /\ UNCHANGED <<now, sent, nreq, testMode, testRecipient, race, batch,
                   nbatch, script, nscript>>

\* ------------------------------------------------ GET /subscribers handler

\* exports.getSubscribers: getNewsletterSubscribers() with its default
\* activeOnly = true; the answer holds the list (its count is the length).
GetSubscribers(p, readOk) ==
    /\ Free(p)
    /\ nreq < MaxReqs
    /\ nreq' = nreq + 1
    /\ Reply(p, [IdleFrame EXCEPT !.op = "list", !.touched = {"load"}], 200, "",
             getNewsletterSubscribers(loadSubscribers(readOk), TRUE))
    /\ UNCHANGED <<file, now, sent, lastCall, prevCall, testMode, testRecipient>>
    /\ UNCHANGED <<race, batch, nbatch, script, nscript>>

\* ------------------------------------------------------- one send: the race

\* clearTimeout(timeoutId): an armed timer is cancelled, one that has fired
\* or was cancelled stays as it is.
clearTimeout(timer) == IF timer = "armed" THEN "cleared" ELSE timer

\* Mutant of settle: a later resolve or reject replaces the outcome.
settleAgain(promise, outcome) == outcome

\* resolve(...) or reject(...) on a promise: a pending promise takes the
\* outcome, a settled one keeps the outcome it has.
settle(promise, outcome) == IF promise = "pending" THEN outcome ELSE promise

\* --------------------------------------------------- sendNewsletter (batch)

\* specificEmail ? allSubscribers.filter(sub => sub.email === specificEmail)
\*               : allSubscribers
selectRecipients(allSubscribers, specificEmail) ==
    IF specificEmail = Absent
    THEN allSubscribers
    ELSE SelectSeq(allSubscribers, LAMBDA sub : sub.email = specificEmail[1])

\* Mutant of redirectRecipients: the test-mode switch is not looked at.
redirectIgnored(subscribers, mode, recipient) == Some(subscribers)

\* Mutant of redirectRecipients: test mode without a test recipient goes on
\* to the subscribers.
redirectFallsThrough(subscribers, mode, recipient) ==
    IF mode /\ recipient # Absent
    THEN Some(<<[email |-> recipient[1], name |-> Some("Test Recipient"),
                 isActive |-> TRUE]>>)
    ELSE Some(subscribers)

\* The test-mode block of sendNewsletter: outside test mode the recipients
\* stay; in test mode with a test recipient the list is emptied and the
\* test recipient pushed; in test mode without one the function returns
\* true (no list to send to: Absent).
redirectRecipients(subscribers, mode, recipient) ==
    IF mode
    THEN IF recipient # Absent
         THEN Some(<<[email |-> recipient[1], name |-> Some("Test Recipient"),
                      isActive |-> TRUE]>>)
         ELSE Absent
    ELSE Some(subscribers)

\* Mutant of nextRecipient: the test-mode switch is looked at for every
\* recipient.
nextRecipientRedirected(subscribers, k) ==
    IF testMode /\ testRecipient # Absent
    THEN [email |-> testRecipient[1], name |-> Some("Test Recipient"),
          isActive |-> TRUE]
    ELSE subscribers[k]

\* Mutant of nextRecipient: the list is walked from its end.
nextRecipientReversed(subscribers, k) == subscribers[Len(subscribers) - k + 1]

\* `for (const subscriber of subscribers)`: the k-th recipient of the loop.
nextRecipient(subscribers, k) == subscribers[k]

\* Mutant of afterSend: a failed send ends the loop.
afterSendAbort(outcome) == IF outcome = "sent" THEN "delay" ELSE "return"

\* The body of the loop once the promise of a send has settled: fulfilled,
\* the 1000 ms pause is awaited; rejected (error or timeout), the catch of
\* the iteration logs and the loop goes to the next recipient at once.
afterSend(outcome) == IF outcome = "sent" THEN "delay" ELSE "next"

\* Mutant of recipientsAt: the loop walks the active subscribers of the
\* file as it is now.
recipientsLive(f) ==
    selectRecipients(getNewsletterSubscribers(file, TRUE), f.specificEmail)

\* The array the loop of the run with frame f walks: the local
\* `subscribers`, filled once before the loop.
recipientsAt(f) == f.subscribers

\* Mutant of outerCatch: the error leaves sendNewsletter.
outerRethrow(f) == [f EXCEPT !.pc = "done", !.thrown = TRUE]

\* The catch of sendNewsletter (lines 379-382): an error thrown outside
\* the loop is logged and false is returned.
outerCatch(f) == [f EXCEPT !.pc = "done", !.result = Some(FALSE)]

\* Mutant of triggerAccepted: no run starts while another one is at work.
triggerGuarded(running) == ~running

\* Whether a trigger starts a run when another run is at work or not: the
\* callback of the daily task and the send script call sendNewsletter
\* without looking at anything.
triggerAccepted(running) == TRUE

\* The frame f of a run once sendNewsletter has returned `value`.
Done(f, value) == [f EXCEPT !.pc = "done", !.result = Some(value)]

\* sendNewsletter returns `value`.
BatchReturn(f, value) == batch' = Done(f, value)

\* The head of the loop, reached by the run `who` with frame f, r being the
\* races so far: with a recipient left, its sendMail is initiated and the
\* promise of the send awaited; with none left, sendNewsletter returns
\* true.  The value holds the frame, the sends and the races afterwards.
Iterate(who, f, r) ==
    IF f.k < Len(recipientsAt(f))
    THEN LET subscriber == nextRecipient(recipientsAt(f), f.k + 1) IN
         [frame |-> [f EXCEPT !.pc = "send_wait", !.k = f.k + 1],
          sent |-> Append(sent, [kind |-> "newsletter",
                                 to |-> subscriber.email,
                                 for |-> subscriber.email]),
          race |-> Append(r, NewRace(who))]
    ELSE [frame |-> Done(f, TRUE), sent |-> sent, race |-> r]

BatchIterate(f, r) ==
    LET n == Iterate(Batch, f, r) IN
    /\ batch' = n.frame
    /\ sent' = n.sent
    /\ race' = n.race

\* The frame of a run that starts: sendNewsletter(specificEmail) awaits
\* getNewsletterSubscribers(true).
Started(specificEmail) ==
    [IdleBatch EXCEPT !.pc = "load", !.specificEmail = specificEmail,
                      !.base = Len(sent)]

\* sendNewsletter(specificEmail) is called by the daily task (which passes
\* no argument; the script passes one or none).
BatchStart(specificEmail) ==
    /\ batch.pc \in {"idle", "done"}
    /\ triggerAccepted(script.pc \notin {"idle", "done"})
    /\ nbatch < MaxBatches
    /\ nbatch' = nbatch + 1
    /\ batch' = Started(specificEmail)
    /\ UNCHANGED <<file, now, call, sent, nreq, answer, lastCall, prevCall,
                   testMode, testRecipient, race, script, nscript>>

\* getNewsletterSubscribers(true) resolves for the run with frame f:
\* nobody to send to, return true; otherwise the test-mode switch and the
\* test recipient are read: test mode without a test recipient, return
\* true; else the recipients are fixed and generateNewsletterHtml is
\* awaited.  unsubscribed holds the emails of the unsubscribes among the
\* last two calls that have returned by now.
Loaded(f, readOk) ==
    LET loaded == loadSubscribers(readOk)
        allSubscribers == getNewsletterSubscribers(loaded, TRUE)
        subscribers == selectRecipients(allSubscribers, f.specificEmail)
        g == [f EXCEPT !.loaded = loaded,
                       !.unsubscribed =
                           {c.email : c \in {x \in {prevCall, lastCall} :
                                                x.op = "unsubscribe"}}]
        h == [g EXCEPT !.mode = testMode, !.recipient = testRecipient]
        redirected == redirectRecipients(subscribers, testMode, testRecipient)
    IN IF Len(subscribers) = 0
       THEN Done(g, TRUE)
       ELSE IF redirected = Absent
       THEN Done(h, TRUE)
       ELSE [h EXCEPT !.pc = "render", !.subscribers = redirected[1]]

BatchLoad(readOk) ==
    /\ batch.pc = "load"
    /\ batch' = Loaded(batch, readOk)
    /\ UNCHANGED <<file, now, call, sent, nreq, answer, lastCall, prevCall,
                   testMode, testRecipient, race, nbatch, script, nscript>>

\* generateNewsletterHtml settles and createEmailTransporter returns or
\* throws: with the digest rendered and the transporter created the loop
\* is entered; otherwise the error reaches the catch of sendNewsletter.
Rendered(who, f, r, renderOk, created) ==
    IF renderOk /\ created
    THEN Iterate(who, f, r)
    ELSE [frame |-> outerCatch(f), sent |-> sent, race |-> r]

BatchRender(renderOk, created) ==
    /\ batch.pc = "render"
    /\ LET n == Rendered(Batch, batch, race, renderOk, created) IN
       /\ batch' = n.frame
       /\ sent' = n.sent
       /\ race' = n.race
    /\ UNCHANGED <<file, now, call, nreq, answer, lastCall, prevCall,
                   testMode, testRecipient, nbatch, script, nscript>>

\* The promise of the send to recipient k of the run `who` with frame f0
\* settles with `outcome`, r being the races after the settlement.
AfterSend(who, f0, outcome, r) ==
    LET f == [f0 EXCEPT !.outcomes = Append(@, outcome)] IN
    CASE afterSend(outcome) = "delay" ->
             [frame |-> [f EXCEPT !.pc = "delay"], sent |-> sent, race |-> r]
      [] afterSend(outcome) = "next" -> Iterate(who, f, r)
      [] OTHER -> [frame |-> Done(f, TRUE), sent |-> sent, race |-> r]

BatchAfterSend(outcome, r) ==
    LET n == AfterSend(Batch, batch, outcome, r) IN
    /\ batch' = n.frame
    /\ sent' = n.sent
    /\ race' = n.race

\* The 1000 ms pause after a send ends.
BatchDelay ==
    /\ batch.pc = "delay"
    /\ BatchIterate([batch EXCEPT !.delays = @ \cup {batch.k}], race)
    /\ UNCHANGED <<file, now, call, nreq, answer, lastCall, prevCall,
                   testMode, testRecipient, nbatch, script, nscript>>

\* ------------------------------------------------------- the send script

\* `node send-newsletter.js [email]`: the script calls
\* sendNewsletter(process.argv[2] || null) in a process of its own, beside
\* the server.
ScriptStart(specificEmail) ==
    /\ script.pc \in {"idle", "done"}
    /\ triggerAccepted(batch.pc \notin {"idle", "done"})
    /\ nscript < MaxScripts
    /\ nscript' = nscript + 1
    /\ script' = Started(specificEmail)
    /\ UNCHANGED <<file, now, call, sent, nreq, answer, lastCall, prevCall,
                   testMode, testRecipient, race, batch, nbatch>>

ScriptLoad(readOk) ==
    /\ script.pc = "load"
    /\ script' = Loaded(script, readOk)
    /\ UNCHANGED <<file, now, call, sent, nreq, answer, lastCall, prevCall,
                   testMode, testRecipient, race, batch, nbatch, nscript>>

ScriptRender(renderOk, created) ==
    /\ script.pc = "render"
    /\ LET n == Rendered(Script, script, race, renderOk, created) IN
       /\ script' = n.frame
       /\ sent' = n.sent
       /\ race' = n.race
    /\ UNCHANGED <<file, now, call, nreq, answer, lastCall, prevCall,
                   testMode, testRecipient, batch, nbatch, nscript>>

ScriptAfterSend(outcome, r) ==
    LET n == AfterSend(Script, script, outcome, r) IN
    /\ script' = n.frame
    /\ sent' = n.sent
    /\ race' = n.race

ScriptDelay ==
    /\ script.pc = "delay"
    /\ LET n == Iterate(Script,
                        [script EXCEPT !.delays = @ \cup {script.k}], race) IN
       /\ script' = n.frame
       /\ sent' = n.sent
       /\ race' = n.race
    /\ UNCHANGED <<file, now, call, nreq, answer, lastCall, prevCall,
                   testMode, testRecipient, batch, nbatch, nscript>>

\* process.env.EMAIL_TEST_MODE and EMAIL_TEST_RECIPIENT are assigned other
\* values while the process runs.
EnvChange(mode, recipient) ==
    /\ <<mode, recipient>> # <<testMode, testRecipient>>
    /\ testMode' = mode
    /\ testRecipient' = recipient
    /\ UNCHANGED <<file, now, call, sent, nreq, answer, lastCall, prevCall,
                   race, batch, nbatch, script, nscript>>

\* The code that awaits the promise of a send goes on after the promise was
\* settled with `outcome`: sendNewsletter, or the subscribe handler `by`
\* inside sendWelcomeEmail.
Resume(by, outcome, r) ==
    IF by = Batch
    THEN /\ batch.pc = "send_wait"
         /\ BatchAfterSend(outcome, r)
         /\ UNCHANGED <<call, answer, lastCall, prevCall, script>>
    ELSE IF by = Script
    THEN /\ script.pc = "send_wait"
         /\ ScriptAfterSend(outcome, r)
         /\ UNCHANGED <<call, answer, lastCall, prevCall, batch>>
    ELSE /\ call[by].pc = "welcome_wait"
         /\ AfterWelcome(by, call[by], outcome)
         /\ race' = r
         /\ UNCHANGED <<sent, batch, script>>

\* The callback of transporter.sendMail for send i runs, with an error or
\* without: clearTimeout, then reject or resolve.
MailTransport(i, ok) ==
    /\ i \in 1..Len(race)
    /\ race[i].transport = "flying"
    /\ LET m == race[i]
           outcome == IF ok THEN "sent" ELSE "error"
           r == [race EXCEPT ![i] =
                    [m EXCEPT !.transport = "answered",
                              !.timer = clearTimeout(m.timer),
                              !.promise = settle(m.promise, outcome)]]
       IN IF m.promise = "pending"
          THEN Resume(m.by, outcome, r)
          ELSE /\ race' = r
               /\ UNCHANGED <<call, answer, lastCall, prevCall, sent, batch,
                              script>>
    /\ UNCHANGED <<file, now, nreq, testMode, testRecipient, nbatch, nscript>>

\* The 30 s timer of send i fires: reject(new Error('Email sending timed
\* out')).
MailTimer(i) ==
    /\ i \in 1..Len(race)
    /\ race[i].timer = "armed"
    /\ LET m == race[i]
           r == [race EXCEPT ![i] =
                    [m EXCEPT !.timer = "fired",
                              !.promise = settle(m.promise, "timeout")]]
       IN IF m.promise = "pending"
          THEN Resume(m.by, "timeout", r)
          ELSE /\ race' = r
               /\ UNCHANGED <<call, answer, lastCall, prevCall, sent, batch,
                              script>>
    /\ UNCHANGED <<file, now, nreq, testMode, testRecipient, nbatch, nscript>>

\* ------------------------------------------------------------------- clock

Tick ==
    /\ now < MaxClock
    /\ now' = now + 1
    /\ UNCHANGED <<file, call, sent, nreq, answer, lastCall, prevCall, testMode,
                   testRecipient, race, batch, nbatch, script,
                   nscript>>

\* ---------------------------------------------------------- specifications

WelcomeOutcomes == {"sent", "error", "timeout"}

\* The handlers in P.  Reads, Writes and Mails hold the ways a read of the
\* file, a write of it and the creation of the transporter can end (TRUE:
\* it succeeds).
Step(P, Reads, Writes, Mails) ==
    \E p \in P :
        \/ \E body \in SubscribeBodies : SubscribeReq(p, body)
        \/ \E ok \in Reads : SubLoad(p, ok)
        \/ \E ok \in Writes, created \in Mails : SubSave(p, ok, created)
        \/ \E outcome \in WelcomeOutcomes : WelcomeSettle(p, outcome)
        \/ \E body \in UnsubscribeBodies : UnsubscribeReq(p, body)
        \/ \E ok \in Reads : UnsubLoad(p, ok)
        \/ \E ok \in Writes : UnsubSave(p, ok)
        \/ \E ok \in Reads : GetSubscribers(p, ok)

\* Concurrent requests on a healthy file system.
Next == Step(Procs, {TRUE}, {TRUE}, {TRUE}) \/ Tick
Spec == Init /\ [][Next]_vars

\* Requests served strictly one after another on a healthy file system.
NextSeq == Step(SeqProcs, {TRUE}, {TRUE}, {TRUE}) \/ Tick
SpecSeq == Init /\ [][NextSeq]_vars

\* Requests served one after another; the file is readable, a write of it
\* and the creation of the transporter may fail.
NextSeqSend == Step(SeqProcs, {TRUE}, BOOLEAN, BOOLEAN) \/ Tick
SpecSeqSend == Init /\ [][NextSeqSend]_vars

\* Requests served one after another; a read and a write of the file may
\* fail.
NextSeqStore == Step(SeqProcs, BOOLEAN, BOOLEAN, {TRUE}) \/ Tick
SpecSeqStore == Init /\ [][NextSeqStore]_vars

\* Concurrent requests; reads, writes and the transporter factory may fail.
NextFault == Step(Procs, BOOLEAN, BOOLEAN, BOOLEAN) \/ Tick
SpecFault == Init /\ [][NextFault]_vars

\* Bodies posted while the sends are followed: a well-formed address, no
\* preferences.
BatchSubscribeBodies == { Body(Some(x), PrefsNone) : x \in GoodEmails }

\* The record a subscribe of e with no preferences creates at clock reading
\* 0, its id taken at reading ms.
StoredRecord(e, ms) ==
    createSubscription(subscribeArgs(Body(Some(e), PrefsNone)), 0, ms)

\* Contents of the subscribers file that earlier subscribes and
\* unsubscribes have left: nothing, one record, two records of which the
\* second was unsubscribed, two active records.
Stores ==
    { <<>>,
      <<StoredRecord(EmailA, 0)>>,
      <<StoredRecord(EmailA, 0), markInactive(StoredRecord(EmailB, 1), 0)>>,
      <<StoredRecord(EmailA, 0), StoredRecord(EmailB, 1)>> }

\* The server starts on a subscribers file left by earlier runs.
InitStored ==
    /\ file \in Stores
    /\ now = 0
    /\ call = [p \in Procs |-> IdleFrame]
    /\ sent = <<>>
    /\ nreq = 0
    /\ answer = NoAnswer
    /\ lastCall = NoCall
    /\ prevCall = NoCall
    /\ testMode \in BOOLEAN
    /\ testRecipient \in {Absent, Some(EmailTestRecipient)}
    /\ race = <<>>
    /\ batch = IdleBatch
    /\ nbatch = 0
    /\ script = IdleBatch
    /\ nscript = 0

\* Subscribe requests served one after another beside runs of
\* sendNewsletter, on a healthy file system; every send, welcome or digest,
\* is followed through its timer and its transport callback.
NextBatch ==
    \/ \E p \in SeqProcs :
          \/ \E body \in BatchSubscribeBodies :
                nreq < MaxWelcomes /\ SubscribeReq(p, body)
          \/ SubLoad(p, TRUE)
          \/ SubSave(p, TRUE, TRUE)
    \/ \E specificEmail \in {Absent, Some(EmailA)} : BatchStart(specificEmail)
    \/ BatchLoad(TRUE)
    \/ BatchRender(TRUE, TRUE)
    \/ BatchDelay
    \/ \E i \in 1..Len(race) :
          \/ \E ok \in BOOLEAN : MailTransport(i, ok)
          \/ MailTimer(i)
SpecBatch == InitStored /\ [][NextBatch]_vars

\* The timer and the transport callback of the sends made so far.
Mail ==
    \E i \in 1..Len(race) :
        \/ \E ok \in BOOLEAN : MailTransport(i, ok)
        \/ MailTimer(i)

\* The daily task alone, on a stored file: the read of the file, the
\* rendering of the digest and the creation of the transporter may fail.
NextSched ==
    \/ BatchStart(Absent)
    \/ \E ok \in BOOLEAN : BatchLoad(ok)
    \/ \E renderOk \in BOOLEAN, created \in BOOLEAN :
          BatchRender(renderOk, created)
    \/ BatchDelay
    \/ Mail
SpecSched == InitStored /\ [][NextSched]_vars

\* A run of sendNewsletter while the test-mode switch and the test
\* recipient are changed under it.
NextEnv ==
    \/ \E specificEmail \in {Absent, Some(EmailA)} : BatchStart(specificEmail)
    \/ BatchLoad(TRUE)
    \/ BatchRender(TRUE, TRUE)
    \/ BatchDelay
    \/ Mail
    \/ \E mode \in BOOLEAN, recipient \in {Absent, Some(EmailTestRecipient)} :
          EnvChange(mode, recipient)
SpecEnv == InitStored /\ [][NextEnv]_vars

\* Subscribe and unsubscribe requests, in flight together, beside a run of
\* the daily task, on a healthy file system.
NextMix ==
    \/ \E p \in Procs :
          \/ \E body \in BatchSubscribeBodies :
                nreq < MaxMixReqs /\ SubscribeReq(p, body)
          \/ SubLoad(p, TRUE)
          \/ SubSave(p, TRUE, TRUE)
          \/ \E e \in GoodEmails :
                nreq < MaxMixReqs /\ UnsubscribeReq(p, [email |-> Some(e)])
          \/ UnsubLoad(p, TRUE)
          \/ UnsubSave(p, TRUE)
    \/ BatchStart(Absent)
    \/ BatchLoad(TRUE)
    \/ BatchRender(TRUE, TRUE)
    \/ BatchDelay
    \/ Mail
SpecMix == InitStored /\ [][NextMix]_vars

\* The daily task and the send script on one stored file, on a healthy file
\* system.
NextOverlap ==
    \/ BatchStart(Absent)
    \/ BatchLoad(TRUE)
    \/ BatchRender(TRUE, TRUE)
    \/ BatchDelay
    \/ \E specificEmail \in {Absent, Some(EmailA)} : ScriptStart(specificEmail)
    \/ ScriptLoad(TRUE)
    \/ ScriptRender(TRUE, TRUE)
    \/ ScriptDelay
    \/ Mail
SpecOverlap == InitStored /\ [][NextOverlap]_vars

\* The timers of the sends made so far.
Timers == \E i \in 1..Len(race) : MailTimer(i)

\* The daily task alone under the scheduling of the event loop: a read of
\* the file settles, the rendering of the digest and the creation of the
\* transporter end one way or the other, the 1000 ms pause ends, and an
\* armed 30 s timer fires unless it is cleared first.  Nothing is asked of
\* the transport: its callback may never run; nor of the daily trigger.
Fairness ==
    /\ WF_vars(\E ok \in BOOLEAN : BatchLoad(ok))
    /\ WF_vars(\E renderOk \in BOOLEAN, created \in BOOLEAN :
                  BatchRender(renderOk, created))
    /\ WF_vars(BatchDelay)
    /\ WF_vars(Timers)
SpecLive == InitStored /\ [][NextSched]_vars /\ Fairness

\* ------------------------------------------------------ claims: helpers

\* The emails of the records of a collection.
EmailsOf(store) == {store[i].email : i \in 1..Len(store)}

\* The places of the records of a collection that carry email e.
Places(store, e) == {i \in 1..Len(store) : store[i].email = e}

\* No handler is between its request and its answer.
Quiet == \A p \in Procs : call[p].pc = "idle"

\* The welcome sends initiated for subscriber e.
WelcomesFor(e) ==
    {i \in 1..Len(sent) : sent[i].kind = "welcome" /\ sent[i].for = e}

\* The number of places of s that hold character c.
Count(s, c) == Cardinality({i \in 1..Len(s) : s[i] = c})

\* An address of the form local@domain: one "@", no white space, a
\* non-empty local part, and a dot inside the domain with something on
\* both sides of it.
WellFormed(s) ==
    /\ Count(s, "@") = 1
    /\ Count(s, " ") = 0
    /\ LET at == CHOOSE i \in 1..Len(s) : s[i] = "@" IN
          /\ at > 1
          /\ \E j \in (at + 2)..(Len(s) - 1) : s[j] = "."

\* The digest sends of the run of sendNewsletter that frame f belongs to,
\* in the order they were initiated.
DigestsOf(f) ==
    SelectSeq(SubSeq(sent, f.base + 1, Len(sent)),
              LAMBDA m : m.kind = "newsletter")

\* The places in sent of those sends.
DigestPlaces(f) ==
    {i \in (f.base + 1)..Len(sent) : sent[i].kind = "newsletter"}

\* The active subscribers of the collection the run of frame f loaded, cut
\* down to the one address the run was asked for, if any.
ActiveLoaded(f) ==
    SelectSeq(f.loaded,
              LAMBDA sub : /\ sub.isActive
                           /\ f.specificEmail # Absent
                              => sub.email = f.specificEmail[1])

\* The addresses of the digest sends that the run `who` with frame f has
\* initiated, in order.
SentBy(who, f) ==
    LET at == {i \in (f.base + 1)..Len(sent) :
                  sent[i].kind = "newsletter" /\ race[i].by = who}
        nth(n) == CHOOSE i \in at : Cardinality({j \in at : j <= i}) = n
    IN [n \in 1..Cardinality(at) |-> sent[nth(n)].to]

\* The number of places of a sequence that hold x.
Times(seq, x) == Cardinality({i \in 1..Len(seq) : seq[i] = x})

\* result.name for the value a function returned: a boolean has no
\* properties.
Prop(v, name) == IF v \in BOOLEAN THEN Absent ELSE Some(v[name])

\* ------------------------------------------------------------------ claims

\* C1: at most one record per email exists in the persisted collection, in
\* every reachable state, for any interleaving of subscribe and unsubscribe
\* calls (also when reads or writes of the file fail).
C1_UniqueEmail ==
    \A i, j \in 1..Len(file) : file[i].email = file[j].email => i = j

\* C1 witness: two subscribes of the same new email both created and saved
\* it, a record of another email is stored as well.
C1_Witness ==
    /\ Len(file) = 2
    /\ \E e \in GoodEmails : Cardinality(WelcomesFor(e)) = 2

C3_UnsubscribeFrame ==
    [][\A p \in Procs :
          (call[p].pc = "unsub_save" /\ file' # file)
          => /\ Len(file') = Len(file)
             /\ \A i \in 1..Len(file) :
                   IF file[i].email = call[p].args.email
                   THEN /\ file'[i].isActive = FALSE
                        /\ file'[i].updatedAt = call[p].timestamp
                        /\ file'[i].updatedAt >= file[i].updatedAt
                        /\ file'[i].id = file[i].id
                        /\ file'[i].email = file[i].email
                        /\ file'[i].createdAt = file[i].createdAt
                        /\ file'[i].name = file[i].name
                        /\ file'[i].topics = file[i].topics
                        /\ file'[i].sources = file[i].sources
                        /\ file'[i].frequency = file[i].frequency
                   ELSE file'[i] = file[i]]_vars

\* C3 witness: an unsubscribe has returned after the clock advanced past
\* the creation of its record, and another record is stored beside it.
C3_Witness ==
    /\ Quiet
    /\ lastCall.op = "unsubscribe"
    /\ Len(file) = 2
    /\ lastCall.rec[1].updatedAt > lastCall.rec[1].createdAt
    /\ \E i \in 1..Len(file) : file[i] = lastCall.rec[1]

\* C4: an unsubscribe whose email matches no record of the store, active or
\* inactive, is answered with the not-found result and has not written the
\* store.
C4_UnknownUnsubscribe ==
    (/\ answer.op = "unsubscribe"
     /\ ~Falsy(answer.body.email)
     /\ answer.body.email[1] \notin EmailsOf(file))
    => /\ answer.data =
             Some([success |-> FALSE,
                   message |-> "Email not found in subscribers list"])
       /\ "save" \notin answer.touched

\* C4 witness: an unsubscribe on the empty store has been answered.
C4_Witness ==
    /\ answer.op = "unsubscribe"
    /\ ~Falsy(answer.body.email)
    /\ file = <<>>
    /\ "load" \in answer.touched

\* C5: the answer of POST unsubscribe for an email that matches no stored
\* record is an error answer, never the 200 answer of a successful
\* unsubscribe.
C5_NotFoundIsAnError ==
    (/\ answer.op = "unsubscribe"
     /\ ~Falsy(answer.body.email)
     /\ answer.index = -1
     /\ "load" \in answer.touched)
    => /\ answer.status # 200
       /\ answer.text # "Successfully unsubscribed from newsletter"

\* C6 (as amended): after a subscribe(e) that creates the record of e the
\* active-only list contains e; after a following unsubscribe(e) the
\* active-only list no longer contains e, while the full list still
\* contains e, with isActive = false.
C6_RoundTrip ==
    /\ (Quiet /\ lastCall.op = "subscribe" /\ lastCall.index = -1)
       => lastCall.email \in EmailsOf(getNewsletterSubscribers(file, TRUE))
    /\ (/\ Quiet
        /\ lastCall.op = "unsubscribe"
        /\ prevCall.op = "subscribe"
        /\ prevCall.email = lastCall.email)
       => LET all == getNewsletterSubscribers(file, FALSE) IN
          /\ lastCall.email \notin EmailsOf(getNewsletterSubscribers(file, TRUE))
          /\ Places(all, lastCall.email) # {}
          /\ \A i \in Places(all, lastCall.email) : all[i].isActive = FALSE

\* C6 witness: subscribe(e) created the record of e, the unsubscribe(e) that
\* followed has returned, and an active record is stored beside it.
C6_Witness ==
    /\ Quiet
    /\ lastCall.op = "unsubscribe"
    /\ prevCall.op = "subscribe"
    /\ prevCall.index = -1
    /\ prevCall.email = lastCall.email
    /\ Len(getNewsletterSubscribers(file, TRUE)) = 1
    /\ Len(getNewsletterSubscribers(file, FALSE)) = 2

\* C6 as stated: after subscribe(e) the active-only list contains e; after
\* a following unsubscribe(e) the active-only list no longer contains e
\* while the full list still contains e with isActive = false.
C6_Original ==
    /\ (Quiet /\ lastCall.op = "subscribe")
       => lastCall.email \in EmailsOf(getNewsletterSubscribers(file, TRUE))
    /\ (/\ Quiet
        /\ lastCall.op = "unsubscribe"
        /\ prevCall.op = "subscribe"
        /\ prevCall.email = lastCall.email)
       => LET all == getNewsletterSubscribers(file, FALSE) IN
          /\ lastCall.email \notin EmailsOf(getNewsletterSubscribers(file, TRUE))
          /\ \E i \in Places(all, lastCall.email) : all[i].isActive = FALSE

\* C7: a subscribe request whose email is missing or malformed is answered
\* with 400 before the store is touched: the handler has neither read nor
\* written the file and has initiated no welcome send.
C7_InvalidEmailRejected ==
    (/\ answer.op = "subscribe"
     /\ (answer.body.email = Absent \/ ~WellFormed(answer.body.email[1])))
    => /\ answer.status = 400
       /\ answer.touched = {}
       /\ answer.data = <<>>

\* C7 witness: a subscribe with an address that has an "@" and no dot in
\* its domain has been answered while a record is stored.
C7_Witness ==
    /\ answer.op = "subscribe"
    /\ answer.body.email = Some(BadNoDot)
    /\ answer.status = 400
    /\ Len(file) = 1

\* C8: a subscribe on an email that already has a record preserves the
\* record's isActive; subscribe(e) after unsubscribe(e) returns a record
\* (lastCall.rec) with isActive = false, which is the stored one, and e
\* stays out of the active-only list, from which batch delivery takes its
\* recipients.
C8_SubscribePreservesIsActive ==
    /\ (Quiet /\ lastCall.op = "subscribe" /\ lastCall.index >= 0)
       => /\ lastCall.old # <<>>
          /\ lastCall.rec[1].isActive = lastCall.old[1].isActive
    /\ (/\ Quiet
        /\ lastCall.op = "subscribe"
        /\ prevCall.op = "unsubscribe"
        /\ prevCall.email = lastCall.email)
       => /\ lastCall.rec[1].isActive = FALSE
          /\ \A i \in Places(file, lastCall.email) : file[i] = lastCall.rec[1]
          /\ lastCall.email \notin EmailsOf(getNewsletterSubscribers(file, TRUE))

\* C8 witness: subscribe(e) has returned right after unsubscribe(e).
C8_Witness ==
    /\ Quiet
    /\ lastCall.op = "subscribe"
    /\ prevCall.op = "unsubscribe"
    /\ prevCall.email = lastCall.email
    /\ answer.status = 200
    /\ answer.op = "subscribe"

\* C9: at most one welcome send is initiated per email over any execution,
\* interleaved subscribe calls for the same email included, and a subscribe
\* that finds an existing record for its email initiates none.
C9_OneWelcomePerEmail ==
    /\ \A e \in GoodEmails : Cardinality(WelcomesFor(e)) <= 1
    /\ (answer.op = "subscribe" /\ answer.index >= 0)
       => "send" \notin answer.touched

\* C10: for a first-time subscribe whose save succeeded, the call returns
\* the new record (answer 200) however the welcome step ended, and the
\* record is persisted with isActive = true.
C10_WelcomeOutcomeIgnored ==
    (/\ Quiet
     /\ answer.op = "subscribe"
     /\ answer.index = -1
     /\ "save" \in answer.touched)
    => /\ answer.status = 200
       /\ Len(answer.data) = 1
       /\ answer.data[1].email = answer.body.email[1]
       /\ answer.data[1].isActive = TRUE
       /\ \E i \in 1..Len(file) : file[i] = answer.data[1]

\* C10 witness: a first-time subscribe has returned after its welcome send
\* timed out.
C10_Witness ==
    /\ Quiet
    /\ answer.op = "subscribe"
    /\ answer.index = -1
    /\ "save" \in answer.touched
    /\ answer.welcome = "timeout"
    /\ answer.status = 200

\* C11: a first-time subscribe answers without waiting for its welcome send
\* to settle: no handler stands between the sendMail of a welcome message
\* and its answer.
C11_WelcomeNotAwaited ==
    \A p \in Procs : call[p].pc # "welcome_wait"

\* C12: a run of sendNewsletter outside test mode that has returned made
\* exactly one send attempt to every active subscriber of the collection
\* it loaded, and each attempt has settled, whatever the outcomes of the
\* earlier ones.
C12_BatchIsolation ==
    (batch.pc = "done" /\ ~testMode)
    => LET recipients == ActiveLoaded(batch)
           attempts == DigestsOf(batch)
       IN /\ Len(attempts) = Len(recipients)
          /\ \A i \in 1..Len(recipients) :
                /\ attempts[i].to = recipients[i].email
                /\ Times([n \in 1..Len(attempts) |-> attempts[n].to],
                         recipients[i].email) = 1
          /\ Len(batch.outcomes) = Len(recipients)

\* C12 witness: a run over two active subscribers has returned; its first
\* send timed out and its second send failed.
C12_Witness ==
    /\ batch.pc = "done"
    /\ ~testMode
    /\ batch.outcomes = <<"timeout", "error">>
    /\ Len(DigestsOf(batch)) = 2

\* C13: the result of a run of sendNewsletter carries the number of sends
\* that succeeded and the number that failed, equal to the outcomes of the
\* sends of the run.
C13_ResultReportsCounts ==
    (batch.pc = "done" /\ Len(batch.outcomes) > 0)
    => /\ Prop(batch.result[1], "succeeded") =
             Some(Times(batch.outcomes, "sent"))
       /\ Prop(batch.result[1], "failed") =
             Some(Len(batch.outcomes) - Times(batch.outcomes, "sent"))

\* C14: with test mode enabled no send, welcome or digest, goes to the
\* address of a stored subscriber: every send made is addressed to the
\* configured test recipient (so without one, nothing is sent).
C14_TestModeRedirectsAll ==
    testMode
    => \A i \in 1..Len(sent) :
          /\ testRecipient # Absent
          /\ sent[i].to = testRecipient[1]
          /\ sent[i].to \notin EmailsOf(file)

\* C14 witness: in test mode a welcome message and a digest have been sent
\* while two subscribers are stored.
C14_Witness ==
    /\ testMode
    /\ Len(file) = 2
    /\ \E i, j \in 1..Len(sent) :
          sent[i].kind = "welcome" /\ sent[j].kind = "newsletter"

\* C15: with test mode enabled and a test recipient configured, a run of
\* sendNewsletter that has returned made exactly one sendMail call,
\* addressed to the test recipient, however many subscribers are stored.
C15_TestModeCollapse ==
    (batch.pc = "done" /\ testMode /\ testRecipient # Absent)
    => /\ Len(DigestsOf(batch)) = 1
       /\ DigestsOf(batch)[1].to = testRecipient[1]

\* C16: with test mode enabled and no test recipient configured,
\* sendNewsletter makes no sendMail call and returns true.
C16_TestModeNoRecipient ==
    (testMode /\ testRecipient = Absent)
    => /\ \A i \in 1..Len(sent) : sent[i].kind # "newsletter"
       /\ batch.pc \notin {"render", "send_wait", "delay"}
       /\ batch.pc = "done" => batch.result = Some(TRUE)

\* C16 witness: in test mode without a test recipient a run that loaded two
\* active subscribers has returned.
C16_Witness ==
    /\ testMode
    /\ testRecipient = Absent
    /\ batch.pc = "done"
    /\ Len(ActiveLoaded(batch)) = 2

\* C17: within one run of sendNewsletter outside test mode the sends go to
\* the active subscribers loaded, in the order of that list, and a send is
\* initiated only when the promise of every earlier send of the run has
\* settled (fulfilled, rejected by the transport or by the timer).
C17_SequentialInOrder ==
    (batch.pc \in {"send_wait", "delay", "done"} /\ ~testMode)
    => LET recipients == ActiveLoaded(batch)
           attempts == DigestsOf(batch)
       IN /\ Len(attempts) <= Len(recipients)
          /\ \A n \in 1..Len(attempts) : attempts[n].to = recipients[n].email
          /\ \A i, j \in DigestPlaces(batch) :
                i < j => race[i].promise # "pending"

\* C17 witness: the send to the second recipient is awaited after the send
\* to the first one timed out, its transport still at work.
C17_Witness ==
    /\ batch.pc = "send_wait"
    /\ ~testMode
    /\ batch.k = 2
    /\ \E i \in DigestPlaces(batch) :
          race[i].promise = "timeout" /\ race[i].transport = "flying"

\* C18: when a send of a run is initiated, the pause between messages has
\* elapsed after every earlier send of the run, whether that send
\* succeeded or failed.
C18_DelayAfterEverySend ==
    batch.pc \in {"send_wait", "delay", "done"}
    => \A n \in 1..(batch.k - 1) : n \in batch.delays

\* C19: the promise of a send settles once, with the first outcome: a
\* settled promise never changes, also when the transport answers after
\* the timer fired; a timer that fired means the outcome is the timeout; a
\* transport that answered first has cancelled the timer, which then never
\* fires; and the outcome the run of sendNewsletter took for a send is the
\* one its promise holds.
C19_SettlesOnce ==
    /\ [][\A i \in 1..Len(race) :
             /\ race[i].promise # "pending" => race'[i].promise = race[i].promise
             /\ race[i].timer = "cleared" => race'[i].timer = "cleared"]_vars
    /\ [](\A i \in 1..Len(race) :
             /\ race[i].timer = "fired" <=> race[i].promise = "timeout"
             /\ race[i].timer = "cleared"
                <=> (race[i].promise \in {"sent", "error"})
             /\ race[i].timer = "armed"
                <=> (race[i].promise = "pending")
             /\ race[i].promise = "pending" => race[i].transport = "flying"
             /\ race[i].timer = "cleared" => race[i].transport = "answered")
    /\ [](LET at == DigestPlaces(batch) IN
          \A i \in at :
             LET n == Cardinality({j \in at : j <= i}) IN
             IF n <= Len(batch.outcomes)
             THEN batch.outcomes[n] = race[i].promise
             ELSE race[i].promise = "pending")

\* C19 witness: the transport of a digest send and the transport of a
\* welcome send have answered after their timers had fired.
C19_Witness ==
    \E i, j \in 1..Len(race) :
        /\ race[i].by = Batch
        /\ race[j].by # Batch
        /\ race[i].timer = "fired" /\ race[i].transport = "answered"
        /\ race[j].timer = "fired" /\ race[j].transport = "answered"

\* C20: a subscribe or unsubscribe that could not load or could not
\* persist the collection loses and changes no record of the persisted
\* collection; with requests served one after another, then, whatever way
\* the load and the save of a request end, a write of the file keeps
\* every record that was stored, changing at most the record of the
\* request's email.
C20_StorageErrorKeepsStore ==
    [][\A p \in SeqProcs :
          (call[p].pc \in {"sub_save", "unsub_save"} /\ file' # file)
          => \A i \in 1..Len(file) :
                /\ file[i].email \in EmailsOf(file')
                /\ file[i].email # call[p].args.email
                   => \E j \in 1..Len(file') : file'[j] = file[i]]_vars

\* C21: a record is never physically removed: in every execution, with
\* interleaved subscribe and unsubscribe requests too, every email that has
\* a record in the persisted collection has one in every later persisted
\* collection.
C21_NeverRemoved ==
    [][EmailsOf(file) \subseteq EmailsOf(file')]_vars

\* C22: ids are never reused: two stored records of different emails have
\* different ids, also when both were created at one reading of the clock.
C22_IdsNeverReused ==
    \A i, j \in 1..Len(file) :
        file[i].email # file[j].email => file[i].id # file[j].id

\* C27: a save rewrites the whole collection from the snapshot of the
\* request that saves, whatever another request has persisted since that
\* snapshot was loaded; so of two mutations in flight together the change
\* of the one that saved first can be absent from the final collection
\* although both reported success (the witness).
C27_LastWriteWins ==
    [][\A p \in Procs :
          (call[p].pc \in {"sub_save", "unsub_save"} /\ call'[p] # call[p])
          => file' = call[p].subscribers]_vars

\* C27 witness: two mutations on different emails have both returned with
\* success, and the record the earlier one wrote is not in the persisted
\* collection.
C27_Witness ==
    /\ Quiet
    /\ prevCall.op # "none"
    /\ lastCall.op # "none"
    /\ lastCall.email # prevCall.email
    /\ \A i \in 1..Len(file) : file[i] # prevCall.rec[1]
    /\ \E i \in 1..Len(file) : file[i] = lastCall.rec[1]

\* C29: a welcome send is initiated only by a handler whose save of the
\* collection with the new record has succeeded, the record being stored
\* at that moment; a subscribe whose save failed is answered with 500 and
\* has initiated no send.
C29_WelcomeAfterSave ==
    /\ [][\A p \in Procs :
             (call[p].pc = "sub_save" /\ sent' # sent)
             => /\ file' = call[p].subscribers
                /\ \E i \in 1..Len(file') :
                      file'[i] = call[p].subscription[1]]_vars
    /\ [](answer.op = "subscribe"
          => /\ "send" \in answer.touched => "save" \in answer.touched
             /\ ("load" \in answer.touched /\ "save" \notin answer.touched)
                => answer.status = 500 /\ answer.data = <<>>)

\* C29 witness: the save of a new record failed after an earlier subscribe
\* had been welcomed; the request is answered with 500 and one send, the
\* earlier one, has been made.
C29_Witness ==
    /\ answer.op = "subscribe"
    /\ answer.index = -1
    /\ answer.status = 500
    /\ Len(sent) = 1
    /\ Len(file) = 1

C25_SwitchReadOnce ==
    batch.pc \in {"send_wait", "delay", "done"}
    => LET attempts == DigestsOf(batch)
           recipients == ActiveLoaded(batch)
       IN IF batch.mode
          THEN /\ Len(attempts) <= 1
               /\ \A n \in 1..Len(attempts) :
                     attempts[n].to = batch.recipient[1]
          ELSE /\ Len(attempts) <= Len(recipients)
               /\ \A n \in 1..Len(attempts) :
                     attempts[n].to = recipients[n].email

\* C25 witness: test mode was switched on, with a test recipient, after the
\* first of two sends of a run that had read it as off.
C25_Witness ==
    /\ batch.pc = "delay"
    /\ batch.k = 1
    /\ Len(batch.subscribers) = 2
    /\ ~batch.mode
    /\ testMode
    /\ testRecipient # Absent

\* C23: outside test mode every digest send of a run goes to a subscriber
\* whose record is active in the collection the run loaded, and a
\* subscriber whose unsubscribe had returned before the run loaded gets no
\* send of that run.
C23_InactiveExcluded ==
    (~testMode /\ batch.pc \in {"send_wait", "delay", "done"})
    => \A n \in 1..Len(DigestsOf(batch)) :
          LET to == DigestsOf(batch)[n].to IN
          /\ \E i \in 1..Len(batch.loaded) :
                /\ batch.loaded[i].email = to
                /\ batch.loaded[i].isActive # FALSE
          /\ to \notin batch.unsubscribed

\* C26: a run sends to the subscribers of the collection it loaded at its
\* start only: outside test mode no digest send of the run goes to an
\* email that has no record in that collection, so a subscriber whose
\* record is persisted while the run delivers gets no send of it.
C26_BatchSnapshot ==
    (~testMode /\ batch.pc \in {"send_wait", "delay", "done"})
    => /\ \A n \in 1..Len(DigestsOf(batch)) :
             DigestsOf(batch)[n].to \in EmailsOf(batch.loaded)
       /\ Len(DigestsOf(batch)) <= Len(batch.loaded)

\* C26 witness: a run that loaded one subscriber has returned after its one
\* send, and the record of another subscriber, created while the run was
\* delivering, is persisted.
C26_Witness ==
    /\ ~testMode
    /\ batch.pc = "done"
    /\ Len(batch.loaded) = 1
    /\ Len(DigestsOf(batch)) = 1
    /\ lastCall.op = "subscribe"
    /\ lastCall.index = -1
    /\ lastCall.email \notin EmailsOf(batch.loaded)
    /\ lastCall.email \in EmailsOf(file)
    /\ \E i \in 1..Len(sent) :
          /\ sent[i].kind = "newsletter"
          /\ \E j \in 1..(i - 1) : sent[j].kind = "welcome"

\* C28: nothing guards a run of sendNewsletter against another one: a
\* trigger of the send script is accepted whatever the daily task is doing,
\* and the other way round, and each of two runs at work together sends to
\* every active subscriber it loaded; so a subscriber can get the digest
\* of both runs (the witness).
C28_RunsOverlap ==
    /\ (script.pc = "idle" /\ nscript < MaxScripts)
       => ENABLED ScriptStart(Absent)
    /\ (batch.pc = "idle" /\ nbatch < MaxBatches)
       => ENABLED BatchStart(Absent)
    /\ (~testMode /\ batch.pc = "done")
       => SentBy(Batch, batch) =
             [n \in 1..Len(ActiveLoaded(batch)) |->
                 ActiveLoaded(batch)[n].email]
    /\ (~testMode /\ script.pc = "done")
       => SentBy(Script, script) =
             [n \in 1..Len(ActiveLoaded(script)) |->
                 ActiveLoaded(script)[n].email]

\* C28 witness: the send script made a send to a subscriber between two
\* sends of a run of the daily task, which had sent to that subscriber
\* already.
C28_Witness ==
    \E i, j, k \in 1..Len(sent) :
        /\ i < j /\ j < k
        /\ race[i].by = Batch /\ race[k].by = Batch
        /\ race[j].by = Script
        /\ sent[j].to = sent[i].to
        /\ ~testMode

\* C30: a run of sendNewsletter that was started returns in the end, even
\* if the callback of no sendMail call ever runs: every send it waits for
\* is rejected by its 30 s timer at the latest (the read of the file and
\* the rendering of the digest being taken to end).
C30_RunCompletes == [](batch.pc # "idle" => <>(batch.pc = "done"))

\* C30 witness: a run over two subscribers has returned true though the
\* transport answered neither send: both were rejected by their timers.
C30_Witness ==
    /\ batch.pc = "done"
    /\ batch.result = Some(TRUE)
    /\ batch.outcomes = <<"timeout", "timeout">>
    /\ Len(race) = 2
    /\ \A i \in 1..Len(race) :
          race[i].transport = "flying" /\ race[i].timer = "fired"

====
